---- MODULE Spec2Model ----
(***************************************************************************)
(* Model of str-twincoding/file_decoder.py: FileDecoder, the decoder of a  *)
(* twin-coded (Reed-Solomon over GF(2^8)) file from k fragment files.      *)
(***************************************************************************)
EXTENDS Integers, Sequences, FiniteSets, TLC

(***************************************************************************)
(* Bounds of the model.                                                    *)
(***************************************************************************)
MaxK == 2
MaxChunks == 2
MaxFiles == 3
MaxPatterns == 2

(***************************************************************************)
(* Arrays: the tuple <<F(lo), ..., F(hi)>>, and <<F(1), ..., F(n)>>.        *)
(***************************************************************************)
RECURSIVE Table(_, _, _)
Table(F(_), lo, hi) ==
  IF lo = hi THEN <<F(lo)>>
  ELSE Table(F, lo, (lo + hi) \div 2) \o Table(F, ((lo + hi) \div 2) + 1, hi)

Vec(n, F(_)) == IF n = 0 THEN <<>> ELSE Table(F, 1, n)

(***************************************************************************)
(* GF(2^8) as galois.GF(2 ** 8) builds it: polynomial basis, irreducible   *)
(* polynomial x^8 + x^4 + x^3 + x^2 + 1, primitive element 2.              *)
(***************************************************************************)
FieldOrder == 256
ReducePoly == 29
PrimitiveElement == 2

RECURSIVE XorBits(_, _, _)
XorBits(a, b, w) ==
  IF w = 0 THEN 0
  ELSE (((a % 2) + (b % 2)) % 2) + 2 * XorBits(a \div 2, b \div 2, w - 1)

\* addition is the exclusive or of the two bytes, taken four bits at a time
XOR4 == Vec(16, LAMBDA i : Vec(16, LAMBDA j : XorBits(i - 1, j - 1, 4)))

GFAdd(a, b) ==
  16 * XOR4[(a \div 16) + 1][(b \div 16) + 1] + XOR4[(a % 16) + 1][(b % 16) + 1]

XTime(a) == IF 2 * a < FieldOrder THEN 2 * a ELSE GFAdd(2 * a - FieldOrder, ReducePoly)

\* the product of two field elements, by shift and add modulo the polynomial
RECURSIVE GFMulBits(_, _)
GFMulBits(a, b) ==
  IF b = 0 THEN 0
  ELSE GFAdd(IF b % 2 = 1 THEN a ELSE 0, GFMulBits(XTime(a), b \div 2))

RECURSIVE GFPowBits(_, _)
GFPowBits(a, e) ==
  IF e = 0 THEN 1
  ELSE IF e % 2 = 0 THEN GFPowBits(GFMulBits(a, a), e \div 2)
  ELSE GFMulBits(a, GFPowBits(GFMulBits(a, a), e \div 2))

\* The lookup tables the field multiplies with: EXP[e + 1] is the primitive
\* element to the power e, LOG[a] the discrete logarithm of a # 0.
PowerOfPrimitive(e) == GFPowBits(PrimitiveElement, e)
EXP == Table(PowerOfPrimitive, 0, FieldOrder - 2)

LogOf(a) == (CHOOSE e \in 1..(FieldOrder - 1) : EXP[e] = a) - 1
LOG == Table(LogOf, 1, FieldOrder - 1)

GFMul(a, b) ==
  IF a = 0 \/ b = 0 THEN 0 ELSE EXP[((LOG[a] + LOG[b]) % (FieldOrder - 1)) + 1]

GFPow(a, e) ==
  IF e = 0 THEN 1
  ELSE IF a = 0 THEN 0
  ELSE EXP[((LOG[a] * e) % (FieldOrder - 1)) + 1]

\* multiplicative inverse of a nonzero element: a^(2^8 - 2)
GFInv(a) == GFPow(a, FieldOrder - 2)

(***************************************************************************)
(* Matrices over GF(2^8): a matrix is a sequence of rows.                  *)
(***************************************************************************)
RECURSIVE GFSumTo(_, _)
GFSumTo(s, m) == IF m = 0 THEN 0 ELSE GFAdd(GFSumTo(s, m - 1), s[m])

GFSum(s) == GFSumTo(s, Len(s))

\* A @ B for GF arrays
MatMul(A, B) ==
  Vec(Len(A), LAMBDA r :
    Vec(Len(B[1]), LAMBDA c :
      GFSum(Vec(Len(B), LAMBDA j : GFMul(A[r][j], B[j][c])))))

\* A.T
Transpose(A) == Vec(Len(A[1]), LAMBDA r : Vec(Len(A), LAMBDA c : A[c][r]))

\* A without row r and column c
Minor(A, r, c) ==
  Vec(Len(A) - 1, LAMBDA i :
    Vec(Len(A) - 1, LAMBDA j :
      A[IF i < r THEN i ELSE i + 1][IF j < c THEN j ELSE j + 1]))

RECURSIVE Det(_)
Det(A) ==
  IF Len(A) = 0 THEN 1
  ELSE IF Len(A) = 1 THEN A[1][1]
  ELSE GFSum(Vec(Len(A), LAMBDA c : GFMul(A[1][c], Det(Minor(A, 1, c)))))

\* np.linalg.inv on a GF array: the inverse, or LinAlgError when singular
Singular(A) == Det(A) = 0

MatInv(A) ==
  LET d == GFInv(Det(A))
  IN Vec(Len(A), LAMBDA r :
       Vec(Len(A), LAMBDA c : GFMul(d, Det(Minor(A, c, r)))))


(***************************************************************************)
(* rs_generator_matrix(GF, k, n): the k x n Vandermonde matrix whose       *)
(* column j evaluates at the point PrimitiveElement^j (n distinct nonzero  *)
(* points), so that every k columns are independent.                       *)
(***************************************************************************)
rs_generator_matrix(k, n) ==
  Vec(k, LAMBDA i : Vec(n, LAMBDA j : GFPow(GFPow(PrimitiveElement, j - 1), i - 1)))

\* the columns at the indices, in ascending order of index whatever the order given
SubmatrixAscending(G, files_indices) ==
  LET given == {files_indices[c] : c \in 1..Len(files_indices)}
      nth(c) == CHOOSE v \in given : Cardinality({w \in given : w < v}) = c - 1
  IN Vec(Len(G), LAMBDA i : Vec(Len(files_indices), LAMBDA c : G[i][nth(c) + 1]))

\* G[:, files_indices]: the columns at the (0-based) indices, in the order given
Submatrix(G, files_indices) ==
  Vec(Len(G), LAMBDA i : Vec(Len(files_indices), LAMBDA c : G[i][files_indices[c] + 1]))

(***************************************************************************)
(* Python helpers.                                                         *)
(***************************************************************************)
Min(a, b) == IF a < b THEN a ELSE b
Max(a, b) == IF a > b THEN a ELSE b

\* s[:m] of a Python sequence, m of either sign
SliceTo(s, m) ==
  IF m >= 0 THEN SubSeq(s, 1, Min(m, Len(s)))
  ELSE SubSeq(s, 1, Max(0, Len(s) + m))

\* ceil(a / b)
CeilDiv(a, b) == (a + b - 1) \div b

RECURSIVE Concat(_, _)
Concat(f, m) == IF m = 0 THEN <<>> ELSE Concat(f, m - 1) \o f[m]

\* a.reshape(-1): the rows of a matrix one after the other
Flatten(A) == Concat(A, Len(A))

\* the k x k matrix whose rows are read one after the other from s at offset off
Reshape(s, off, k) == Vec(k, LAMBDA r : Vec(k, LAMBDA c : s[off + (r - 1) * k + c]))

(***************************************************************************)
(* File names of an encoded directory, as sequences of characters, and the *)
(* pattern  re.match(r'type([01])_node(\d+).dat', filename).               *)
(***************************************************************************)
Digit == {"0", "1", "2", "3", "4", "5", "6", "7", "8", "9"}

DigitVal(c) ==
  CASE c = "0" -> 0 [] c = "1" -> 1 [] c = "2" -> 2 [] c = "3" -> 3 [] c = "4" -> 4
    [] c = "5" -> 5 [] c = "6" -> 6 [] c = "7" -> 7 [] c = "8" -> 8 [] c = "9" -> 9

\* int(digits)
RECURSIVE IntOf(_)
IntOf(ds) ==
  IF ds = <<>> THEN 0
  ELSE 10 * IntOf(SubSeq(ds, 1, Len(ds) - 1)) + DigitVal(ds[Len(ds)])

HasPrefix(name, pre) == Len(name) >= Len(pre) /\ SubSeq(name, 1, Len(pre)) = pre

NodePrefix == <<"_", "n", "o", "d", "e">>
DatSuffix == <<"d", "a", "t">>

\* the lengths d of a digit run for which the whole pattern matches: `type`,
\* one of 0/1, `_node`, d digits, any one character but a newline, `dat`
MatchLens(name) ==
  { d \in 1..Len(name) :
      /\ HasPrefix(name, <<"t", "y", "p", "e">>)
      /\ Len(name) >= 10 + d + 4
      /\ name[5] \in {"0", "1"}
      /\ SubSeq(name, 6, 10) = NodePrefix
      /\ \A i \in 11..(10 + d) : name[i] \in Digit
      /\ name[10 + d + 1] # "\n"
      /\ SubSeq(name, 10 + d + 2, 10 + d + 4) = DatSuffix }

Matches(name) == MatchLens(name) # {}

\* \d+ is greedy: the longest digit run for which the rest still matches
MatchLen(name) == CHOOSE d \in MatchLens(name) : \A e \in MatchLens(name) : e <= d

\* int(match.group(1)), int(match.group(2))
TypeNo(name) == DigitVal(name[5])
IndexNo(name) == IntOf(SubSeq(name, 11, 10 + MatchLen(name)))

(***************************************************************************)
(* map_files(files_dir, k): listing is os.listdir(files_dir), in the order *)
(* the directory enumeration returns it.  A dict is the sequence of its    *)
(* items in insertion order.                                               *)
(***************************************************************************)
RECURSIVE Bucket(_, _)
Bucket(listing, t) ==
  IF listing = <<>> THEN <<>>
  ELSE LET rest == Bucket(SubSeq(listing, 1, Len(listing) - 1), t)
           f == listing[Len(listing)]
       IN IF Matches(f) /\ TypeNo(f) = t
          THEN Append(rest, [path |-> f, index |-> IndexNo(f)])
          ELSE rest

\* sorted(items, key=lambda x: x[1]) is stable: an item goes after every item
\* already placed whose key is not larger
InsertByIndex(sorted, e) ==
  LET pos == Cardinality({i \in 1..Len(sorted) : sorted[i].index <= e.index})
  IN SubSeq(sorted, 1, pos) \o <<e>> \o SubSeq(sorted, pos + 1, Len(sorted))

\* the items left in the order the directory enumeration gave them
Unsorted(items) == items

RECURSIVE SortedByIndex(_)
SortedByIndex(items) ==
  IF items = <<>> THEN <<>>
  ELSE InsertByIndex(SortedByIndex(SubSeq(items, 1, Len(items) - 1)), items[Len(items)])

\* map_files asking the type-1 bucket for more than k files
map_files_strict(listing, k) ==
  LET type0_files == Bucket(listing, 0)
      type1_files == Bucket(listing, 1)
  IN IF Len(type0_files) >= k
     THEN [ok |-> TRUE, files |-> SliceTo(SortedByIndex(type0_files), k)]
     ELSE IF Len(type1_files) > k
     THEN [ok |-> TRUE, files |-> SliceTo(SortedByIndex(type1_files), k)]
     ELSE [ok |-> FALSE, error |-> "InsufficientFragments",
           type0 |-> Len(type0_files), type1 |-> Len(type1_files)]

map_files(listing, k) ==
  LET type0_files == Bucket(listing, 0)
      type1_files == Bucket(listing, 1)
  IN IF Len(type0_files) >= k
     THEN [ok |-> TRUE, files |-> SliceTo(SortedByIndex(type0_files), k)]
     ELSE IF Len(type1_files) >= k
     THEN [ok |-> TRUE, files |-> SliceTo(SortedByIndex(type1_files), k)]
     ELSE [ok |-> FALSE, error |-> "InsufficientFragments",
           type0 |-> Len(type0_files), type1 |-> Len(type1_files)]


(***************************************************************************)
(* The encoded store on disk.  The encoder is external: a k x k block X of *)
(* the padded source is stored at node i as X times column i of the        *)
(* generator matrix; the type-1 nodes store the transposed block.          *)
(***************************************************************************)
EncodeChunk(st, t, idx, b) ==
  LET k == st.k
      G == rs_generator_matrix(k, st.n)
      X == Reshape(st.src, b * k * k, k)
      Xe == IF t = 1 THEN Transpose(X) ELSE X
  IN Vec(k, LAMBDA r : GFSum(Vec(k, LAMBDA j : GFMul(Xe[r][j], G[j][idx + 1]))))

StoreChunks(st) == Len(st.src) \div (st.k * st.k)

\* the fragment file of node idx of layout t: its chunks one after the other
FragmentFile(st, t, idx) ==
  Flatten(Vec(StoreChunks(st), LAMBDA b : EncodeChunk(st, t, idx, b - 1)))

FragmentLength(st) == Len(st.src) \div st.k

\* the file name the encoder gives the fragment of node idx of layout t
DigitChar(d) == CHOOSE c \in Digit : DigitVal(c) = d
FragmentName(t, idx) ==
  <<"t", "y", "p", "e", DigitChar(t)>> \o NodePrefix \o <<DigitChar(idx), ".">> \o DatSuffix

(***************************************************************************)
(* State.                                                                  *)
(***************************************************************************)
VARIABLES
  pc,          \* "start", "ready", "decoding", "done", "failed", "closed"
  mode,        \* "explicit": FileDecoder(...), "dir": FileDecoder.from_encoded_dir(...)
  store,       \* the encoded store: [k, n, src], src the padded source
  files,       \* the files of the encoded directory: name |-> content
  listing,     \* os.listdir of the encoded directory, in enumeration order
  config,      \* config.json: [type0, type1, file_length]
  args,        \* arguments of the call: [node_type, file_map, org_file_length, overwrite]
  outExists,   \* whether a file exists at output_path before the call
  recover_from_files,  \* None, or Some(the map that map_files returned)
  decoder,     \* None, or Some(the FileDecoder object)
  mmaps,       \* paths of the fragment files that are open (mapped)
  ginv,        \* the inverted decode submatrix
  ci,          \* chunk index of the decode loop
  out,         \* bytes written to the output file by this run
  outCreated,  \* whether this run created or truncated the output file
  reads,       \* number of get_chunks calls
  err          \* <<>>, or the error raised: its name and its arguments

vars == <<pc, mode, store, files, listing, config, args, outExists, recover_from_files, decoder, mmaps,
          ginv, ci, out, outCreated, reads, err>>

None == <<>>
Some(x) == <<x>>

inputs == <<mode, store, files, listing, config, args, outExists>>

(***************************************************************************)
(* ChunksReader(file_map, chunk_size): opens the files of the map, keeps   *)
(* their indices in map order, and counts the chunks of a file.            *)
(***************************************************************************)
FilesIndices(file_map) == Vec(Len(file_map), LAMBDA i : file_map[i].index)

NumChunks(file_length, chunk_size) == CeilDiv(file_length, chunk_size)

\* get_chunks(ci): chunk ci of every open file, in map order
get_chunks(self, disk, c) ==
  Vec(Len(self.file_map), LAMBDA f :
    SubSeq(disk[self.file_map[f].path],
           c * self.chunk_size + 1,
           Min((c + 1) * self.chunk_size, Len(disk[self.file_map[f].path]))))

\* the object a constructor builds once the map has passed its check
NewObject(node_type, file_map, output_overwrite, org_file_length) ==
  [k |-> node_type.k,
   n |-> node_type.n,
   transpose |-> node_type.transpose,
   overwrite |-> output_overwrite,
   org_file_length |-> org_file_length,
   chunk_size |-> node_type.k,
   file_map |-> file_map,
   files_indices |-> FilesIndices(file_map),
   num_chunks |-> NumChunks(FragmentLength(store), node_type.k)]

\* __init__ turning away only the maps with fewer than k files
NewFileDecoderAtLeast(node_type, file_map, output_overwrite, org_file_length) ==
  IF file_map = None \/ Len(file_map[1]) < node_type.k
  THEN /\ pc' = "failed"
       /\ err' = <<"InvalidFragmentCount", node_type.k>>
       /\ UNCHANGED <<decoder, mmaps>>
  ELSE /\ decoder' = Some(NewObject(node_type, file_map[1], output_overwrite, org_file_length))
       /\ mmaps' = {file_map[1][i].path : i \in 1..Len(file_map[1])}
       /\ pc' = "ready"
       /\ err' = err

(***************************************************************************)
(* FileDecoder.__init__                                                    *)
(***************************************************************************)
NewFileDecoder(node_type, file_map, output_overwrite, org_file_length) ==
  IF file_map = None \/ Len(file_map[1]) # node_type.k
  THEN /\ pc' = "failed"
       /\ err' = <<"InvalidFragmentCount", node_type.k>>
       /\ UNCHANGED <<decoder, mmaps>>
  ELSE /\ decoder' = Some(NewObject(node_type, file_map[1], output_overwrite, org_file_length))
       /\ mmaps' = {file_map[1][i].path : i \in 1..Len(file_map[1])}
       /\ pc' = "ready"
       /\ err' = err

\* FileDecoder(node_type, file_map, output_path, overwrite, org_file_length)
Construct ==
  /\ pc = "start"
  /\ mode = "explicit"
  /\ NewFileDecoder(args.node_type, args.file_map, args.overwrite, args.org_file_length)
  /\ UNCHANGED <<inputs, recover_from_files, ginv, ci, out, outCreated, reads>>

(***************************************************************************)
(* FileDecoder.from_encoded_dir                                            *)
(***************************************************************************)
Type0Prefix == <<"t", "y", "p", "e", "0", "_">>

from_encoded_dir ==
  /\ pc = "start"
  /\ mode = "dir"
  /\ IF config.type0.k # config.type1.k
     THEN /\ pc' = "failed"
          /\ err' = <<"MismatchedNodeTypes">>
          /\ UNCHANGED <<recover_from_files, decoder, mmaps>>
     ELSE LET found == map_files(listing, config.type0.k)
          IN IF ~found.ok
             THEN /\ pc' = "failed"
                  /\ err' = <<found.error, found.type0, found.type1>>
                  /\ UNCHANGED <<recover_from_files, decoder, mmaps>>
             ELSE LET node_type ==
                        IF HasPrefix(found.files[1].path, Type0Prefix)
                        THEN config.type0 ELSE config.type1
                  IN /\ recover_from_files' = Some(found.files)
                     /\ NewFileDecoder(node_type, Some(found.files),
                                       args.overwrite, config.file_length)
  /\ UNCHANGED <<inputs, ginv, ci, out, outCreated, reads>>

\* FileDecoder.map_files(files_dir, k), called on its own
MapFiles ==
  /\ pc = "start"
  /\ mode = "map_files"
  /\ LET found == map_files(listing, config.type0.k)
     IN IF found.ok
        THEN /\ recover_from_files' = Some(found.files)
             /\ pc' = "returned"
             /\ err' = err
        ELSE /\ pc' = "failed"
             /\ err' = <<found.error, found.type0, found.type1>>
             /\ UNCHANGED recover_from_files
  /\ UNCHANGED <<inputs, decoder, mmaps, ginv, ci, out, outCreated, reads>>

(***************************************************************************)
(* FileDecoder.decode                                                      *)
(***************************************************************************)
\* np.hstack([chunk.reshape(-1, 1) for chunk in chunks]): chunk c is column c
Stack(chunks) == Vec(Len(chunks[1]), LAMBDA r : Vec(Len(chunks), LAMBDA c : chunks[c][r]))

\* the decoded chunk serialized without undoing the transposition of a type-1 node
DecodeBlockNoTranspose(self, chunks, inverse) ==
  Flatten(MatMul(Stack(chunks), inverse))

\* the bytes of one decoded chunk, before trimming
DecodeBlock(self, chunks, inverse) ==
  LET matrix == Stack(chunks)
      decoded == MatMul(matrix, inverse)
  IN Flatten(IF self.transpose THEN Transpose(decoded) ELSE decoded)

\* s[m:] of a Python sequence, m of either sign
SliceFrom(s, m) ==
  IF m >= 0 THEN SubSeq(s, Min(m, Len(s)) + 1, Len(s))
  ELSE SubSeq(s, Max(0, Len(s) + m) + 1, Len(s))

\* the trim taken also when the chunk ends exactly at the original length
TrimInclusive(self, c, bytes) ==
  LET size == (c + 1) * self.chunk_size * self.k
  IN IF size >= self.org_file_length
     THEN SliceTo(bytes, self.org_file_length - size)
     ELSE bytes

\* the trim keeping the other side of the cut
TrimKeepTail(self, c, bytes) ==
  LET size == (c + 1) * self.chunk_size * self.k
  IN IF size > self.org_file_length
     THEN SliceFrom(bytes, self.org_file_length - size)
     ELSE bytes

\* Trim the last chunk if it is padded
Trim(self, c, bytes) ==
  LET size == (c + 1) * self.chunk_size * self.k
  IN IF size > self.org_file_length
     THEN SliceTo(bytes, self.org_file_length - size)
     ELSE bytes

\* open the output, build and invert the decode submatrix
DecodeStart ==
  /\ pc = "ready"
  /\ LET self == decoder[1]
         G == rs_generator_matrix(self.k, self.n)
     IN IF outExists /\ ~self.overwrite
        THEN /\ pc' = "failed"
             /\ err' = <<"OutputConflict">>
             /\ UNCHANGED <<ginv, ci, out, outCreated>>
        ELSE /\ outCreated' = TRUE
             /\ out' = <<>>
             /\ IF \E i \in 1..Len(self.files_indices) : self.files_indices[i] >= self.n
                THEN /\ pc' = "failed"
                     /\ err' = <<"IndexError">>
                     /\ UNCHANGED <<ginv, ci>>
                ELSE LET g == Submatrix(G, self.files_indices)
                     IN IF Singular(g)
                        THEN /\ pc' = "failed"
                             /\ err' = <<"SingularSubmatrix">>
                             /\ UNCHANGED <<ginv, ci>>
                        ELSE /\ ginv' = MatInv(g)
                             /\ ci' = 0
                             /\ pc' = IF self.num_chunks = 0 THEN "done" ELSE "decoding"
                             /\ err' = err
  /\ UNCHANGED <<inputs, recover_from_files, decoder, mmaps, reads>>

\* one iteration of the loop over range(self.num_chunks)
DecodeChunk ==
  /\ pc = "decoding"
  /\ LET self == decoder[1]
         chunks == get_chunks(self, files, ci)
         bytes == Trim(self, ci, DecodeBlock(self, chunks, ginv))
     IN /\ out' = out \o bytes
        /\ reads' = reads + 1
        /\ ci' = ci + 1
        /\ pc' = IF ci + 1 = self.num_chunks THEN "done" ELSE "decoding"
  /\ UNCHANGED <<inputs, recover_from_files, decoder, mmaps, ginv, outCreated, err>>

\* FileDecoder.close, when the caller invokes it
Close ==
  /\ pc \in {"done", "failed"}
  /\ decoder # None
  /\ mmaps' = {}
  /\ pc' = "closed"
  /\ UNCHANGED <<inputs, recover_from_files, decoder, ginv, ci, out, outCreated, reads, err>>

(***************************************************************************)
(* Inputs.                                                                 *)
(***************************************************************************)
\* a dense byte pattern of the given length
Pattern(len, seed) == [i \in 1..len |-> (i * 37 * seed + 11) % FieldOrder]
PatternSource(len) == {Pattern(len, 1)}

\* the dense patterns, and the sources with at most one byte that is not zero
NonZeroBytes == {1, 202}
MixedSources(len) ==
  {Pattern(len, seed) : seed \in 1..MaxPatterns}
    \cup {[i \in 1..len |-> 0]}
    \cup {[i \in 1..len |-> IF i = p THEN v ELSE 0] : p \in 1..len, v \in NonZeroBytes}

\* an encoded store of nc chunks: a (k, n) code with no or one parity node
Stores(Sources(_), counts) ==
  UNION { UNION { { [k |-> k, n |-> n, src |-> s] : s \in Sources(nc * k * k) } :
                  n \in {k, k + 1}, nc \in counts } :
          k \in 1..MaxK }

Injections(m, S) == {f \in [1..m -> S] : \A i, j \in 1..m : f[i] = f[j] => i = j}

FileMaps(t, n, lens) ==
  UNION { { [i \in 1..m |-> [path |-> FragmentName(t, f[i]), index |-> f[i]]] :
            f \in Injections(m, 0..(n - 1)) } : m \in lens }

NodeType(k, n, t) == [k |-> k, n |-> n, transpose |-> (t = 1)]

NoArgs == [node_type |-> NodeType(1, 1, 0), file_map |-> None,
           org_file_length |-> 0, overwrite |-> FALSE]
NoConfig == [type0 |-> NodeType(1, 1, 0), type1 |-> NodeType(1, 1, 1), file_length |-> 0]
NoStore == [k |-> 1, n |-> 1, src |-> <<>>]

InitRun ==
  /\ pc = "start"
  /\ recover_from_files = None
  /\ decoder = None
  /\ mmaps = {}
  /\ ginv = <<>>
  /\ ci = 0
  /\ out = <<>>
  /\ outCreated = FALSE
  /\ reads = 0
  /\ err = <<>>

\* names found in an encoded directory besides the encoder's: a second name
\* that parses to index 1, a name whose digit run the pattern has to give a digit
\* back from (it parses to index 1), and a name the pattern rejects
ConfigName == <<"c", "o", "n", "f", "i", "g", ".", "j", "s", "o", "n">>
PaddedName(t) ==
  <<"t", "y", "p", "e", DigitChar(t)>> \o NodePrefix \o <<"0", "1", ".">> \o DatSuffix
RunOnName(t) ==
  <<"t", "y", "p", "e", DigitChar(t)>> \o NodePrefix \o <<"1", "2">> \o DatSuffix

DirNames(n) == {FragmentName(t, i) : t \in {0, 1}, i \in 0..(n - 1)} \cup {PaddedName(0)}

ScanNames == DirNames(MaxK + 1) \cup {RunOnName(1), ConfigName}

\* the files of the directory of a store: a name holds the fragment of the node
\* and layout it names, a stray name as many zero bytes
DiskOf(st) ==
  [name \in DirNames(st.n) |->
    IF IndexNo(name) < st.n
    THEN FragmentFile(st, TypeNo(name), IndexNo(name))
    ELSE [i \in 1..FragmentLength(st) |-> 0]]

\* whether a file exists at output_path, and the overwrite flag of the call
OutputCases == {<<FALSE, FALSE>>, <<TRUE, FALSE>>, <<TRUE, TRUE>>}
FreshOutput == {<<FALSE, FALSE>>}

\* map sizes a caller may supply for a code of dimension k
AnySize(k) == {m \in (k - 1)..(k + 1) : m >= 0}
ExactSize(k) == {k}
\* declared lengths, consistent with the store or not
AnyLength(padded, k) == 0..(padded + 1)
\* the lengths an encoder pads to the given padded length
PaddedFrom(padded, k) == {len \in 0..padded : padded - len < k * k}
\* of those, the padded length itself and the lengths one and two bytes short
NearPadded(padded, k) == {len \in PaddedFrom(padded, k) : padded - len <= 2}

\* FileDecoder(...) called with a map of fragments of the store
InitExplicit(Sources(_), lens(_), lengths(_, _), outputs) ==
  /\ mode = "explicit"
  /\ store \in Stores(Sources, 0..MaxChunks)
  /\ files = DiskOf(store)
  /\ listing = <<>>
  /\ config = NoConfig
  /\ \E oc \in outputs :
       /\ outExists = oc[1]
       /\ \E t \in {0, 1} :
            \E fm \in {None} \cup {Some(m) : m \in FileMaps(t, store.n, lens(store.k))} :
              \E len \in lengths(Len(store.src), store.k) :
                args = [node_type |-> NodeType(store.k, store.n, t), file_map |-> fm,
                        org_file_length |-> len, overwrite |-> oc[2]]
  /\ InitRun

\* os.listdir: the names of a directory, in any order
Listings(names, max) == UNION { Injections(m, names) : m \in 0..max }

\* FileDecoder.from_encoded_dir(...) called on a directory of the store
InitDir(Sources(_), lengths(_, _), outputs) ==
  /\ mode = "dir"
  /\ store \in Stores(Sources, {1})
  /\ files = DiskOf(store)
  /\ listing \in Listings(DirNames(store.n), MaxFiles)
  /\ \E k1 \in {store.k, (store.k % MaxK) + 1} :
       \E len \in lengths(Len(store.src), store.k) :
         config = [type0 |-> NodeType(store.k, store.n, 0),
                   type1 |-> NodeType(k1, store.n, 1),
                   file_length |-> len]
  /\ \E oc \in outputs :
       /\ outExists = oc[1]
       /\ args = [NoArgs EXCEPT !.overwrite = oc[2]]
  /\ InitRun

\* FileDecoder.map_files(files_dir, k) called on a directory
InitMapFiles ==
  /\ mode = "map_files"
  /\ store = NoStore
  /\ files = DiskOf(store)
  /\ listing \in Listings(ScanNames, MaxFiles)
  /\ \E k \in 1..(MaxK + 1) :
       config = [type0 |-> NodeType(k, k, 0), type1 |-> NodeType(k, k, 1), file_length |-> 0]
  /\ args = NoArgs
  /\ outExists = FALSE
  /\ InitRun

Init ==
  \/ InitExplicit(PatternSource, AnySize, AnyLength, OutputCases)
  \/ InitDir(PatternSource, NearPadded, OutputCases)

InitRoundTrip == InitExplicit(MixedSources, ExactSize, NearPadded, FreshOutput)

Next ==
  \/ Construct
  \/ from_encoded_dir
  \/ DecodeStart
  \/ DecodeChunk
  \/ Close

NextRoundTrip ==
  \/ Construct
  \/ DecodeStart
  \/ DecodeChunk
  \/ Close

Spec == Init /\ [][Next]_vars

SpecRoundTrip == InitRoundTrip /\ [][NextRoundTrip]_vars

SpecMapFiles == InitMapFiles /\ [][MapFiles]_vars

(***************************************************************************)
(* The decoder object of the run, and what a whole decode of an object     *)
(* writes: the chunks of the loop, each trimmed, one after the other.      *)
(***************************************************************************)
obj == decoder[1]

BlockBytes(o) == o.chunk_size * o.k

DecodeAll(o) ==
  LET inverse == MatInv(Submatrix(rs_generator_matrix(o.k, o.n), o.files_indices))
  IN Flatten(Vec(o.num_chunks, LAMBDA c :
       Trim(o, c - 1, DecodeBlock(o, get_chunks(o, files, c - 1), inverse))))

\* the same fragments supplied in the order p
Reordered(o, p) ==
  LET m == Vec(Len(o.file_map), LAMBDA i : o.file_map[p[i]])
  IN [o EXCEPT !.file_map = m, !.files_indices = FilesIndices(m)]

\* the fragments of the same nodes in the other layout
Twin(o) ==
  LET m == Vec(Len(o.file_map), LAMBDA i :
             [path |-> FragmentName(1 - TypeNo(o.file_map[i].path), o.file_map[i].index),
              index |-> o.file_map[i].index])
  IN [o EXCEPT !.file_map = m, !.transpose = ~o.transpose]

\* the names of the listing that the pattern accepts with layout t
Names(t) ==
  {listing[i] : i \in {j \in 1..Len(listing) : Matches(listing[j]) /\ TypeNo(listing[j]) = t}}

Failed(name) == pc = "failed" /\ err # <<>> /\ err[1] = name

(***************************************************************************)
(* C1.  As claimed: whenever decode() returns without raising, the bytes   *)
(* written total OriginalLength exactly, for every k, num_chunks and       *)
(* OriginalLength.                                                         *)
(***************************************************************************)
C1_ExactLength == pc = "done" => Len(out) = obj.org_file_length

(***************************************************************************)
(* C1, amended.  Whenever decode() returns without raising, the bytes      *)
(* written total min(OriginalLength, num_chunks * k * k): OriginalLength   *)
(* exactly when the fragments hold that many bytes, also when it is no     *)
(* multiple of k * k.  No byte at an offset >= OriginalLength is ever      *)
(* written.                                                                *)
(***************************************************************************)
C1_TotalWritten ==
  decoder # None =>
    /\ Len(out) <= obj.org_file_length
    /\ pc = "done" =>
         Len(out) = Min(obj.org_file_length, obj.num_chunks * BlockBytes(obj))
    /\ pc = "done" /\ obj.num_chunks * BlockBytes(obj) >= obj.org_file_length =>
         Len(out) = obj.org_file_length

C1_Witness ==
  /\ pc = "done"
  /\ obj.k >= 2
  /\ obj.num_chunks >= 1
  /\ obj.org_file_length % BlockBytes(obj) # 0
  /\ obj.org_file_length < obj.num_chunks * BlockBytes(obj)
  /\ Len(out) = obj.org_file_length

(***************************************************************************)
(* C2.  Round trip: decoding k fragments of one layout of an encoded       *)
(* source, whichever k of the n nodes they are, writes exactly the source  *)
(* bytes, and the fragments of the same nodes in the other layout decode   *)
(* to the same bytes.                                                      *)
(***************************************************************************)
C2_RoundTrip ==
  pc = "done" =>
    /\ out = SubSeq(store.src, 1, obj.org_file_length)
    /\ out = DecodeAll(Twin(obj))

C2_Witness ==
  /\ pc = "done"
  /\ obj.k >= 2
  /\ obj.transpose
  /\ \E i \in 1..obj.k : obj.files_indices[i] >= obj.k
  /\ obj.org_file_length % BlockBytes(obj) # 0
  /\ Len(out) >= 3
  /\ out[2] # out[3]
  /\ out = SubSeq(store.src, 1, obj.org_file_length)

(***************************************************************************)
(* C3.  Every exit path of decode() releases the fragment files: after it  *)
(* returns, and after it aborts with an error, none remains open.          *)
(***************************************************************************)
C3_Released ==
  (pc = "done" \/ (pc = "failed" /\ decoder # None)) => mmaps = {}

(***************************************************************************)
(* C4.  Each of the four validation errors is raised before any chunk is   *)
(* read and leaves no side effect: no output byte written, no output file  *)
(* created, no fragment file open.                                         *)
(***************************************************************************)
ValidationErrors ==
  {"InvalidFragmentCount", "InsufficientFragments", "MismatchedNodeTypes", "OutputConflict"}

C4_NoSideEffects ==
  pc = "failed" /\ err[1] \in ValidationErrors =>
    /\ reads = 0
    /\ out = <<>>
    /\ ~outCreated
    /\ mmaps = {}

(***************************************************************************)
(* C5.  map_files returns exactly k files of one layout, in ascending      *)
(* order of index, none of the files left out having a smaller index: of   *)
(* type 0 when the type-0 bucket holds at least k files, else of type 1.   *)
(***************************************************************************)
C5_Selection ==
  recover_from_files # None =>
    LET k == config.type0.k
        r == recover_from_files[1]
        chosen == IF Cardinality(Names(0)) >= k THEN 0 ELSE 1
        picked == {r[i].path : i \in 1..Len(r)}
    IN /\ Cardinality(Names(chosen)) >= k
       /\ Len(r) = k
       /\ Cardinality(picked) = k
       /\ picked \subseteq Names(chosen)
       /\ \A i \in 1..Len(r) : r[i].index = IndexNo(r[i].path)
       /\ \A i, j \in 1..Len(r) : i < j => r[i].index <= r[j].index
       /\ \A f \in Names(chosen) \ picked : \A i \in 1..Len(r) : r[i].index <= IndexNo(f)

C5_Witness ==
  /\ pc = "returned"
  /\ config.type0.k >= 2
  /\ Cardinality(Names(0)) >= 1
  /\ Cardinality(Names(0)) < config.type0.k
  /\ TypeNo(recover_from_files[1][1].path) = 1
  /\ \E i, j \in 1..Len(listing) :
       /\ i < j
       /\ listing[i] \in Names(1)
       /\ listing[j] \in Names(1)
       /\ IndexNo(listing[i]) > IndexNo(listing[j])

(***************************************************************************)
(* C6.  map_files fails with InsufficientFragments if and only if both     *)
(* buckets hold fewer than k files; the error reports the two bucket       *)
(* sizes, and no map is returned.                                          *)
(***************************************************************************)
C6_Insufficient ==
  pc # "start" =>
    LET k == config.type0.k
        n0 == Cardinality(Names(0))
        n1 == Cardinality(Names(1))
    IN /\ Failed("InsufficientFragments") <=> (n0 < k /\ n1 < k)
       /\ Failed("InsufficientFragments") =>
            /\ err = <<"InsufficientFragments", n0, n1>>
            /\ recover_from_files = None

C6_Witness ==
  /\ Failed("InsufficientFragments")
  /\ config.type0.k = 3
  /\ err = <<"InsufficientFragments", 1, 2>>

(***************************************************************************)
(* C7.  Constructing a FileDecoder from a map that is absent or whose size *)
(* differs from k fails with InvalidFragmentCount, before any fragment     *)
(* file is opened; no decoder and no output is produced.                   *)
(***************************************************************************)
C7_InvalidFragmentCount ==
  (/\ mode = "explicit"
   /\ pc # "start"
   /\ (args.file_map = None \/ Len(args.file_map[1]) # args.node_type.k)) =>
    /\ Failed("InvalidFragmentCount")
    /\ decoder = None
    /\ mmaps = {}
    /\ ~outCreated
    /\ out = <<>>
    /\ reads = 0

C7_Witness ==
  /\ Failed("InvalidFragmentCount")
  /\ args.node_type.k >= 2
  /\ args.file_map # None
  /\ Len(args.file_map[1]) = args.node_type.k - 1
  /\ decoder = None
  /\ mmaps = {}

(***************************************************************************)
(* C8.  map_files is deterministic: whatever order the directory           *)
(* enumeration returns the names in, the same names give the same map, in  *)
(* the same order, also when two names of one layout parse to one index.   *)
(***************************************************************************)
C8_Deterministic ==
  pc # "start" =>
    \A p \in Injections(Len(listing), 1..Len(listing)) :
      LET other == map_files(Vec(Len(listing), LAMBDA i : listing[p[i]]), config.type0.k)
      IN IF other.ok
         THEN recover_from_files = Some(other.files)
         ELSE recover_from_files = None

(***************************************************************************)
(* C9.  Order independence: the k fragments supplied in any other order,   *)
(* each with its own index, decode to the same bytes.                      *)
(***************************************************************************)
C9_OrderIndependent ==
  pc = "done" =>
    \A p \in Injections(obj.k, 1..obj.k) : DecodeAll(Reordered(obj, p)) = out

C9_Witness ==
  /\ pc = "done"
  /\ obj.k >= 2
  /\ obj.files_indices[1] > obj.files_indices[2]
  /\ \E i \in 1..Len(out) : out[i] # 0
  /\ out = SubSeq(store.src, 1, obj.org_file_length)

====
